---- MODULE Spec2Model ----
(***************************************************************************)
(* The Metal FlashAttention dispatch layer of blocktorch_bridge:           *)
(* flash_attn_function.py (FlashAttnFunction.forward / backward, the       *)
(* storage normaliser, the reference attention and the kernel availability *)
(* resolver), the query exported by __init__.py, and the start-up function *)
(* main of orchard_bridge/enable_flash.py.                                 *)
(*                                                                         *)
(* Numbers.  dropout_p is kept in hundredths (50 is 0.5).  A tensor's data *)
(* is one (seq, head_dim) slice, a sequence of rows of integers.  Softmax  *)
(* probabilities are numerators over ProbDen, attention outputs too, and   *)
(* every gradient is a numerator over GradDen = ProbDen * ProbDen.         *)
(***************************************************************************)
EXTENDS Integers, Sequences, FiniteSets, TLC

VARIABLES
    torchPresent,   \* module global torch is not None (set once, at import)
    DEBUG,          \* module global _DEBUG (set once, at import)
    fwdReg,         \* hasattr(torch.ops.flash_attn_mps, "_flash_attn_fwd")
    bwdReg,         \* hasattr(torch.ops.flash_attn_mps, "_flash_attn_bwd_dropout")
    bridgeImported, \* the package's try-import of its submodules succeeded
    environ,        \* os.environ.get("USE_FLASH_ATTN"), "unset" when absent
    ctx,            \* the gradient contexts: ctx[c] is one autograd ctx object
    ret,            \* what the last call did and gave back to its caller
    hist            \* history: what earlier calls did (read by no call)

vars == <<torchPresent, DEBUG, fwdReg, bwdReg, bridgeImported, environ, ctx, ret, hist>>

(***************************************************************************)
(* Bounds of the model.                                                    *)
(***************************************************************************)
SeqLen == 2
MaxHeadDim == 24

Ctxs == {1}

(***************************************************************************)
(* Arithmetic helpers.                                                     *)
(***************************************************************************)
RECURSIVE SeqSum(_)
SeqSum(s) == IF s = <<>> THEN 0 ELSE Head(s) + SeqSum(Tail(s))

RECURSIVE Fact(_)
Fact(n) == IF n <= 1 THEN 1 ELSE n * Fact(n - 1)

SeqMax(s) == CHOOSE m \in {s[j] : j \in 1..Len(s)} : \A j \in 1..Len(s) : s[j] <= m

\* Denominator of every probability: each 1/n with n <= SeqLen is exact.
ProbDen == Fact(SeqLen)
GradDen == ProbDen * ProbDen

Rows(m) == Len(m)
Cols(m) == IF m = <<>> THEN 0 ELSE Len(m[1])
Shape(m) == <<Rows(m), Cols(m)>>

Const(n, h, x) == [i \in 1..n |-> [d \in 1..h |-> x]]
Zeros(n, h) == Const(n, h, 0)

Dot(a, b) == SeqSum([d \in 1..Len(a) |-> a[d] * b[d]])

(***************************************************************************)
(* Tensors.  A tensor is a view of a flat storage: shape (1, seq, head_dim),  *)
(* strides <<batch, seq, head_dim>>, offset 0.  data is what the view shows,  *)
(* the (seq, head_dim) elements read through the strides; contig is           *)
(* is_contiguous(); canon is stride() == the row-major strides of shape; rg   *)
(* is requires_grad; leaf is is_leaf; dev is device.type; mode is the storage *)
(* mode of the buffer: "shared", "private", or "default" for whatever the MPS *)
(* allocator gives a new tensor; owner is who materialised the tensor: the     *)
(* "caller", the "dispatcher" or a "kernel".  NoTensor stands for None.       *)
(***************************************************************************)
\* The one element of a singleton set: The({e : x \in {a}}) is e with x = a,
\* a evaluated once.
The(S) == CHOOSE y \in S : TRUE

\* tuple(torch.Size(shape[i+1:]).numel() for i in range(len(shape)))
RowMajor(n, h) == <<n * h, h, 1>>

\* The strides of x.transpose(-2, -1) for a row-major x of shape (1, h, n).
Transposed(n, h) == <<n * h, 1, n>>

\* Where element (i, d) of the view lies in the storage.
Addr(st, i, d) == (i - 1) * st[2] + (d - 1) * st[3] + 1

\* What a view with strides st shows of the storage.
Elements(store, st, n, h) == [i \in 1..n |-> [d \in 1..h |-> store[Addr(st, i, d)]]]

\* The elements of data in row-major order.
Flatten(data) ==
    The({[a \in 1..(n * h) |-> data[((a - 1) \div h) + 1][((a - 1) % h) + 1]] :
         n \in {Rows(data)}, h \in {Cols(data)}})

\* The storage that shows data through the strides st (row-major or transposed).
Pack(data, st) ==
    The({IF h = 0 \/ st[3] = 1 THEN Flatten(data)
         ELSE [a \in 1..(n * h) |-> data[((a - 1) % n) + 1][((a - 1) \div n) + 1]] :
         n \in {Rows(data)}, h \in {Cols(data)}})

\* is_contiguous(): the stride of a dimension of size 1 does not count.
IsContiguous(st, n, h) ==
    \/ n * h = 0
    \/ (h = 1 \/ st[3] = 1) /\ (n = 1 \/ st[2] = h)

Strided(dev, dtype, mode, rg, leaf, n, h, st, store) ==
    [dev |-> dev, dtype |-> dtype, mode |-> mode, rg |-> rg, leaf |-> leaf,
     strides |-> st, store |-> store, data |-> Elements(store, st, n, h),
     contig |-> IsContiguous(st, n, h), canon |-> (st = RowMajor(n, h)),
     owner |-> "caller"]

\* The tensor t, materialised by who.
Own(t, who) == [t EXCEPT !.owner = who]

\* A float32 tensor showing data, laid out as the flags ask: row-major;
\* contiguous with another batch stride (canon false); or transposed.
Tensor(dev, contig, canon, rg, leaf, data) ==
    The({The({Strided(dev, "float32", "default", rg, leaf, n, h, st, Pack(data, st)) :
              st \in {IF contig /\ canon THEN RowMajor(n, h)
                      ELSE IF contig THEN <<n * h + 1, h, 1>>
                      ELSE Transposed(n, h)}}) :
         n \in {Rows(data)}, h \in {Cols(data)}})

NoTensor == Tensor("none", TRUE, TRUE, FALSE, TRUE, <<>>)

\* A tensor the dispatcher or a kernel allocates itself on the accelerator.
Fresh(data) == Own(Tensor("mps", TRUE, TRUE, FALSE, TRUE, data), "dispatcher")

Private(t) == [t EXCEPT !.mode = "private"]
Shared(t) == [t EXCEPT !.mode = "shared"]
Half(t) == [t EXCEPT !.dtype = "float16"]

HeadDimOf(t) == Cols(t.data)

\* A contiguous() that copies the storage as it lies, not as the view shows it.
Contiguous_storage_order(t) ==
    The({Own(Strided(t.dev, t.dtype, "default", FALSE, TRUE, n, h, RowMajor(n, h),
                     t.store), "dispatcher") :
         n \in {Rows(t.data)}, h \in {Cols(t.data)}})

\* t.contiguous() of a tensor that is not contiguous: a new row-major tensor
\* filled with the elements of the view; autograd does not record inside a
\* Function.
Contiguous(t) ==
    The({Own(Strided(t.dev, t.dtype, "default", FALSE, TRUE, n, h, RowMajor(n, h),
                     Flatten(Elements(t.store, t.strides, n, h))), "dispatcher") :
         n \in {Rows(t.data)}, h \in {Cols(t.data)}})

\* t.clone() of a dense tensor: a new allocation with the strides and the
\* storage contents of t.
Clone(t) ==
    The({Own(Strided(t.dev, t.dtype, "default", FALSE, TRUE, n, h, t.strides,
                     t.store), "dispatcher") :
         n \in {Rows(t.data)}, h \in {Cols(t.data)}})

Detach(t) == [t EXCEPT !.rg = FALSE, !.leaf = TRUE]

contig(t) ==
    IF t = NoTensor THEN t
    ELSE IF ~t.contig THEN Contiguous(t)
    ELSE t

\* A normaliser that copies views only: a tensor from the autograd graph is
\* returned as it is.
ensure_shared_mps_tensor_views_only(t) ==
    IF t = NoTensor \/ t.dev # "mps" THEN t
    ELSE IF ~t.contig THEN Clone(Contiguous(t))
    ELSE IF ~t.canon THEN Clone(t)
    ELSE t

ensure_shared_mps_tensor(t) ==
    IF t = NoTensor \/ t.dev # "mps" THEN t
    ELSE IF ~t.contig THEN Clone(Contiguous(t))
    ELSE IF ~t.canon THEN Clone(t)
    ELSE IF t.rg \/ ~t.leaf THEN Detach(Clone(t))
    ELSE t

(***************************************************************************)
(* Reference attention and its reverse-mode gradient.                      *)
(***************************************************************************)
\* The range of the element type, scaled down: FinfoMin stands for
\* torch.finfo(scores.dtype).min, the finite values are FinfoMin .. -FinfoMin,
\* and a result beyond them is -inf or +inf.
FinfoMin == -1000000

NegInf == 2 * FinfoMin
PosInf == -2 * FinfoMin

\* Rounding of an arithmetic result to the element type.
Overflow(x) ==
    IF x < FinfoMin THEN NegInf ELSE IF x > -FinfoMin THEN PosInf ELSE x

\* exp(x) is exactly 0.0 in float32 for x <= -104.
ExpUnderflow == 104

\* scores = torch.matmul(q, k.transpose(-2, -1)) * float(scale)
Scores(q, k, scale) ==
    [i \in 1..Rows(q) |->
        [j \in 1..Rows(k) |-> Overflow(Overflow(Dot(q[i], k[j])) * scale)]]

\* scores.masked_fill(torch.triu(ones, diagonal=1), finfo.min)
CausalFill(scores) ==
    [i \in 1..Len(scores) |->
        [j \in 1..Len(scores[i]) |-> IF j > i THEN FinfoMin ELSE scores[i][j]]]

MaskedScores(q, k, scale, causal) ==
    IF causal THEN CausalFill(Scores(q, k, scale)) ELSE Scores(q, k, scale)

\* The inputs on which the softmax below is the softmax float32 computes:
\* the maximum of every row is finite, and every score of a row is the row's
\* maximum or at least ExpUnderflow below it.
SoftmaxExact(scores) ==
    \A i \in 1..Len(scores) :
        /\ NegInf < SeqMax(scores[i]) /\ SeqMax(scores[i]) < PosInf
        /\ \A j \in 1..Len(scores[i]) :
            \/ scores[i][j] = SeqMax(scores[i])
            \/ scores[i][j] <= SeqMax(scores[i]) - ExpUnderflow

\* torch.softmax(scores, dim=-1), numerators over ProbDen.
Softmax(scores) ==
    [i \in 1..Len(scores) |->
        LET m == SeqMax(scores[i])
            n == Cardinality({j \in 1..Len(scores[i]) : scores[i][j] = m})
        IN  [j \in 1..Len(scores[i]) |->
                IF scores[i][j] = m THEN ProbDen \div n ELSE 0]]

\* torch.matmul(probs, v), numerators over ProbDen.
ProbsTimesV(probs, v) ==
    [i \in 1..Len(probs) |->
        [d \in 1..Cols(v) |-> SeqSum([j \in 1..Rows(v) |-> probs[i][j] * v[j][d]])]]

ref_attention(q0, k0, v0, scale, causal) ==
    The({ProbsTimesV(P, v) :
            P \in {Softmax(MaskedScores(q0, k0, scale, causal))}, v \in {v0}})

\* Backward of out = probs . v towards probs, seeded by g: gP[i][j] = g[i] . v[j]
ProbsGrad(g, v) ==
    [i \in 1..Rows(g) |-> [j \in 1..Rows(v) |-> Dot(g[i], v[j])]]

\* Backward of softmax, P * (gP - sum_j P * gP), then of masked_fill (no
\* gradient to the filled entries) and of "* scale": numerators over GradDen.
ScoresGrad(P, gP, scale, causal) ==
    [i \in 1..Len(P) |-> [j \in 1..Len(P[i]) |->
        IF causal /\ j > i THEN 0
        ELSE scale * P[i][j] * (ProbDen * gP[i][j]
                     - SeqSum([l \in 1..Len(P[i]) |-> P[i][l] * gP[i][l]]))]]

\* Backward of the two matmuls: <<grad_q, grad_k, grad_v>> over GradDen.
InputGrads(q, k, v, g, P, gR) ==
    <<[i \in 1..Rows(q) |-> [d \in 1..Cols(q) |->
            SeqSum([j \in 1..Rows(k) |-> gR[i][j] * k[j][d]])]],
      [j \in 1..Rows(k) |-> [d \in 1..Cols(k) |->
            SeqSum([i \in 1..Rows(q) |-> gR[i][j] * q[i][d]])]],
      [j \in 1..Rows(v) |-> [d \in 1..Cols(v) |->
            ProbDen * SeqSum([i \in 1..Rows(q) |-> P[i][j] * g[i][d]])]]>>

\* torch.autograd.grad(out, (q_, k_, v_), g) for out = ref_attention(q_, k_, v_):
\* <<grad_q, grad_k, grad_v>>, numerators over GradDen.
ref_attention_grad(q0, k0, v0, scale, causal, g0) ==
    The({The({The({InputGrads(q, k, v, g, P, gR) :
                    gR \in {ScoresGrad(P, gP, scale, causal)}}) :
                gP \in {ProbsGrad(g, v)}}) :
            q \in {q0}, k \in {k0}, v \in {v0}, g \in {g0},
            P \in {Softmax(MaskedScores(q0, k0, scale, causal))}})

\* A reference attention that is the fused primitive.
ref_attention_calls_fused(causal) == {"scaled_dot_product_attention"}

\* The torch functions _ref_attention calls.
ref_attention_calls(causal) ==
    {"matmul", "transpose", "mul", "softmax"}
        \cup (IF causal THEN {"size", "ones", "triu", "finfo", "masked_fill"} ELSE {})

\* The functions through which a call comes back into FlashAttnFunction:
\* scaled_dot_product_attention may be patched by the backend to route to
\* flash_attn.
Reentrant == {"scaled_dot_product_attention", "flash_attn", "FlashAttnFunction.apply"}

\* How deep the calls of the dispatch layer are nested while a forward or a
\* backward that makes the calls cs runs.
nesting(cs) == IF cs \cap Reentrant = {} THEN 1 ELSE 2

(***************************************************************************)
(* The native kernels.  They live in libflash_attn.dylib; what they return *)
(* when they succeed is their contract: attention with inverted dropout,   *)
(* out = mask * attention / (1 - dropout_p), and its gradients.            *)
(***************************************************************************)
Ones(n, h) == Const(n, h, 1)

\* g * mask / (1 - dropout_p), elementwise; p in hundredths.
DropoutScale(g0, mask0, p) ==
    The({[i \in 1..Rows(g) |->
            [d \in 1..Cols(g) |->
                IF p >= 100 THEN 0 ELSE (mask[i][d] * g[i][d] * 100) \div (100 - p)]] :
         g \in {g0}, mask \in {mask0}})

\* _flash_attn_fwd(q, k, v, scale, dropout_p, causal) -> (out, mask); the
\* mask is the kernel's random draw kmask, all ones when nothing is dropped.
native_forward(q, k, v, scale, p, causal, kmask) ==
    The({<<[Fresh(DropoutScale(ref_attention(q.data, k.data, v.data, scale, causal),
                               mask, p)) EXCEPT !.dtype = q.dtype, !.owner = "kernel"],
           Own(Fresh(mask), "kernel")>> :
         mask \in {IF p = 0 THEN Ones(Rows(q.data), Cols(v.data)) ELSE kmask}})

\* _flash_attn_bwd_dropout(go, q, k, v, mask, scale, dropout_p, causal)
native_backward(go, q, k, v, mask, scale, p, causal) ==
    ref_attention_grad(q.data, k.data, v.data, scale, causal,
                       DropoutScale(go.data, mask.data, p))

\* What an invocation of a native kernel can do: return, or raise.
KernelResults == {"ok", "RuntimeError", "ValueError"}

\* What a backward can meet: an answer of the kernel; "copy", a kernel that
\* returns a grad_k which grad_k.copy_ refuses with a RuntimeError, after
\* grad_q.copy_ went through; "fallback", a kernel that raises RuntimeError
\* and a fallback whose torch.autograd.grad raises RuntimeError too.
BackwardFaults == KernelResults \cup {"copy", "fallback"}

kernel_answer(kres) ==
    IF kres = "copy" THEN "ok" ELSE IF kres = "fallback" THEN "RuntimeError" ELSE kres

\* The pre-allocated buffers the copies reach: grad_q, grad_k, grad_v in order.
copied_buffers(kres) == IF kres = "copy" THEN {1} ELSE {1, 2, 3}

fallback_error(kres) == IF kres = "fallback" THEN "RuntimeError" ELSE "none"

(***************************************************************************)
(* Gradient context and the record of a call.                              *)
(***************************************************************************)
\* A ctx object as autograd hands it to forward: nothing set, nothing saved.
NoCtx == [params |-> <<>>, saved |-> <<>>]

RetNone ==
    [op |-> "none", c |-> 0, status |-> "none", exc |-> "none", why |-> "none",
     fwdReg |-> FALSE, bwdReg |-> FALSE,
     hd |-> 0, p |-> 0, onDev |-> FALSE, copies |-> {}, seed |-> <<>>,
     fwdCalls |-> 0, bwdCalls |-> 0, fallbacks |-> 0,
     kernel |-> "none", path |-> "none",
     out |-> NoTensor, mask |-> NoTensor, grads |-> <<>>, avail |-> FALSE,
     retry |-> FALSE, again |-> FALSE, arg |-> NoTensor, call |-> <<>>,
     value |-> FALSE, touched |-> {}, kargs |-> <<>>, buffers |-> {},
     from |-> <<>>, trace |-> <<>>, env |-> "none", calls |-> {}, depth |-> 0,
     fbErr |-> "none"]

\* Nothing has been called yet.
NoHist == [unreg |-> FALSE, done |-> {}]

\* The record of a call of op that starts now: retry says the forward before
\* it failed as unregistered, again that a backward on c has returned already.
Call(op, c) ==
    [RetNone EXCEPT !.op = op, !.c = c, !.fwdReg = fwdReg, !.bwdReg = bwdReg,
                    !.retry = hist.unreg, !.again = c \in hist.done]

Raised(r, exc, why) == [r EXCEPT !.status = "raised", !.exc = exc, !.why = why]

\* A tensor a call wrote to: the local name it has and who materialised it.
Written(name, t) == [name |-> name, owner |-> t.owner]

(***************************************************************************)
(* _metal_kernel_available and is_metal_flash_attn_available.              *)
(***************************************************************************)
\* The resolver with the backward operation forgotten.
metal_kernel_available_fwd_only == torchPresent /\ fwdReg

metal_kernel_available == torchPresent /\ fwdReg /\ bwdReg

is_metal_flash_attn_available ==
    IF ~bridgeImported THEN FALSE ELSE metal_kernel_available

(***************************************************************************)
(* enable_flash.main                                                       *)
(***************************************************************************)
\* What main meets outside itself: logOpens, logging.basicConfig can open
\* orchard_enable_flash.log next to the module (or logging is configured
\* already); found, _find_orchard_dylib returns a path; loads,
\* torch.ops.load_library(lib_path) returns; fwd and bwd, the operations the
\* library registers when it loads.
MainCalls ==
    [verbose : BOOLEAN, strict : BOOLEAN, logOpens : BOOLEAN, found : BOOLEAN,
     loads : BOOLEAN, fwd : BOOLEAN, bwd : BOOLEAN]

\* if strict: raise ...; return False
Refuse(r, strict, why) ==
    IF strict THEN Raised(r, "RuntimeError", why)
    ELSE [r EXCEPT !.status = "ok", !.why = why, !.value = FALSE]

\* main(verbose, strict): the call's record, os.environ["USE_FLASH_ATTN"] and
\* the registrations afterwards.
MainOutcome(in) ==
    LET r0 == [Call("main", 0) EXCEPT !.call = in, !.env = environ]
        same(r) == [ret |-> r, environ |-> environ, fwdReg |-> fwdReg,
                    bwdReg |-> bwdReg]
        flagged(r) == [same(r) EXCEPT !.environ = "2"]
        loaded(r) == [flagged(r) EXCEPT !.fwdReg = fwdReg \/ in.fwd,
                                        !.bwdReg = bwdReg \/ in.bwd]
    IN  IF ~in.logOpens THEN same(Raised(r0, "OSError", "log"))
        ELSE IF ~torchPresent THEN same(Refuse(r0, in.strict, "runtime"))
        ELSE IF ~in.found THEN same(Refuse(r0, in.strict, "not_found"))
        ELSE IF ~in.loads THEN flagged(Refuse(r0, in.strict, "load"))
        ELSE IF ~((fwdReg \/ in.fwd) /\ (bwdReg \/ in.bwd)) THEN
            loaded(Refuse(r0, in.strict, "unregistered"))
        ELSE loaded([r0 EXCEPT !.status = "ok", !.value = TRUE])

(***************************************************************************)
(* FlashAttnFunction.forward                                               *)
(***************************************************************************)
fwd_torch_missing == ~torchPresent

\* A forward without its registration check.
fwd_kernel_missing_unchecked == FALSE

\* The registration check answered from an earlier call's answer.
fwd_kernel_missing_cached == ~fwdReg \/ hist.unreg

fwd_kernel_missing == ~fwdReg

\* A forward without its device check.
off_device_unchecked(in) == FALSE

off_device(in) == \E t \in {in.q, in.k, in.v} : t.dev # "mps"

\* The head_dim check with the wrong modulus.
head_dim_invalid_mod4(hd) == hd % 4 # 0

head_dim_invalid(hd) == hd % 8 # 0

\* The dropout_p check with the upper bound included.
dropout_p_invalid_closed(p) == ~(0 <= p /\ p <= 100)

dropout_p_invalid(p) == ~(0 <= p /\ p < 100)

\* A forward that swallows what its kernel raises.
fwd_kernel_raises_swallowed(kres) == FALSE

\* The call of the native forward is not guarded: what it raises leaves forward.
fwd_kernel_raises(kres) == kres # "ok"

\* The names of the inputs _contig copies.
ContigCopies(in) ==
    {n \in {"q", "k", "v"} :
        ~(CASE n = "q" -> in.q [] n = "k" -> in.k [] OTHER -> in.v).contig}

\* forward(ctx, q, k, v, scale, dropout_p, causal) on the ctx object cx, the
\* native kernel answering kres and drawing kmask: the call's record and the
\* ctx object afterwards.
ForwardOutcome(c, cx, in, kres, kmask) ==
    LET r0 == [Call("forward", c) EXCEPT !.hd = HeadDimOf(in.q), !.p = in.p,
                                         !.onDev = ~off_device(in), !.arg = in.q]
        q  == contig(in.q)
        k  == contig(in.k)
        v  == contig(in.v)
        r1 == [r0 EXCEPT !.copies = ContigCopies(in),
                         !.touched = {Written(n, contig(CASE n = "q" -> in.q
                                                           [] n = "k" -> in.k
                                                           [] OTHER -> in.v)) :
                                        n \in ContigCopies(in)}]
        cx1 == [cx EXCEPT !.params = <<in.scale, in.p, in.causal>>]
        r2 == [r1 EXCEPT !.fwdCalls = 1, !.kernel = kres]
    IN  IF fwd_torch_missing THEN
            [ret |-> Raised(r0, "RuntimeError", "runtime"), ctx |-> cx]
        ELSE IF fwd_kernel_missing THEN
            [ret |-> Raised(r0, "RuntimeError", "unregistered"), ctx |-> cx]
        ELSE IF off_device(in) THEN
            [ret |-> Raised(r0, "RuntimeError", "device"), ctx |-> cx]
        ELSE IF head_dim_invalid(HeadDimOf(q)) THEN
            [ret |-> Raised(r1, "ValueError", "head_dim"), ctx |-> cx]
        ELSE IF dropout_p_invalid(in.p) THEN
            [ret |-> Raised(r1, "ValueError", "dropout_p"), ctx |-> cx]
        ELSE IF fwd_kernel_raises(kres) THEN
            [ret |-> Raised(r2, kres, "kernel"), ctx |-> cx1]
        ELSE
            The({[ret |-> [r2 EXCEPT !.status = "ok", !.path = "native",
                                     !.out = om[1], !.mask = om[2],
                                     !.touched = @ \cup {Written("out", om[1]),
                                                         Written("mask", om[2])}],
                  ctx |-> [cx1 EXCEPT !.saved = <<q, k, v, contig(om[2])>>]] :
                 om \in {native_forward(q, k, v, in.scale, in.p, in.causal, kmask)}})

(***************************************************************************)
(* FlashAttnFunction.backward                                              *)
(***************************************************************************)
\* A backward without its runtime check.
bwd_torch_missing_unchecked == FALSE

bwd_torch_missing == ~torchPresent

\* q, k, v, mask = ctx.saved_tensors: an empty tuple does not unpack.
saved_missing(cx) == cx.saved = <<>>

metal_kernel_ok == bwdReg

\* except RuntimeError as e
caught_by_backward(e) == e = "RuntimeError"

\* A fallback that ignores the toggle.
fallback_permitted_always == TRUE

\* elif _DEBUG: the value of the module global when backward runs.
fallback_permitted == DEBUG

\* x.requires_grad_(True) on x itself.
grad_leaf_in_place(x) == [x EXCEPT !.rg = TRUE]

\* x.detach().clone().requires_grad_(True)
grad_leaf(x) == [Detach(Clone(x)) EXCEPT !.rg = TRUE]

\* What the fallback block calls.
fallback_calls(cx) ==
    {"enable_grad", "detach", "clone", "requires_grad_", "autograd.grad"}
        \cup ref_attention_calls(cx.params[3])

\* The fallback of both branches: reference attention on detached clones of the
\* saved q, k, v, differentiated with the seed grad_out.
fallback_grads(cx, go) ==
    LET q_ == grad_leaf(cx.saved[1])
        k_ == grad_leaf(cx.saved[2])
        v_ == grad_leaf(cx.saved[3])
    IN  ref_attention_grad(q_.data, k_.data, v_.data, cx.params[1], cx.params[3],
                           go.data)

\* torch.empty_like(t)
empty_like(t) ==
    [Fresh(Zeros(Rows(t.data), Cols(t.data))) EXCEPT !.dtype = t.dtype]

\* _try_metal with dropout_p left out.
try_metal_no_dropout(go, qq, kk, vv, mm, cx) ==
    <<go, qq, kk, vv, mm, cx.params[1], 0, cx.params[3]>>

\* _try_metal: the arguments the native backward kernel is invoked with.
try_metal(go, qq, kk, vv, mm, cx) ==
    <<go, qq, kk, vv, mm, cx.params[1], cx.params[2], cx.params[3]>>

\* A fallback that rebinds only the names whose buffers were not written.
fallback_rebinds_unwritten(written) == {1, 2, 3} \ written

\* grad_q, grad_k, grad_v = torch.autograd.grad(...): the names the fallback
\* rebinds, whatever buffers the native attempt had written.
fallback_rebinds(written) == {1, 2, 3}

\* A fallback that is run once more when it raised.
on_fallback_error_retried(r, e) ==
    [r EXCEPT !.status = "ok", !.path = "fallback", !.fallbacks = 2,
              !.trace = Append(@, "fallback")]

\* Nothing guards the fallback: what it raises leaves backward.
on_fallback_error(r, e) == Raised(r, e, "fallback")

\* backward(ctx, grad_out) on the ctx object cx, the native kernel answering
\* kres, the module global _DEBUG being debug.
BackwardUnder(debug, c, cx, grad_out, kres) ==
    LET r0 == [Call("backward", c) EXCEPT !.seed = grad_out.data, !.arg = grad_out,
                                          !.depth = 1]
        go == ensure_shared_mps_tensor(grad_out)
        q_shared == ensure_shared_mps_tensor(cx.saved[1])
        k_shared == ensure_shared_mps_tensor(cx.saved[2])
        v_shared == ensure_shared_mps_tensor(cx.saved[3])
        mask_shared == ensure_shared_mps_tensor(cx.saved[4])
        r1 == [r0 EXCEPT !.hd = HeadDimOf(cx.saved[1]), !.p = cx.params[2]]
        kargs == try_metal(go, q_shared, k_shared, v_shared, mask_shared, cx)
        r2 == [r1 EXCEPT !.bwdCalls = 1, !.kernel = kernel_answer(kres),
                         !.kargs = kargs, !.trace = <<"native">>]
        metal == native_backward(kargs[1], kargs[2], kargs[3], kargs[4], kargs[5],
                                 kargs[6], kargs[7], kargs[8])
        bufs == <<Written("grad_q", empty_like(cx.saved[1])),
                  Written("grad_k", empty_like(cx.saved[2])),
                  Written("grad_v", empty_like(cx.saved[3]))>>
        r3 == [r2 EXCEPT !.buffers = copied_buffers(kres),
                         !.touched = {bufs[n] : n \in copied_buffers(kres)}]
        leaves == {Written("q_", grad_leaf(cx.saved[1])),
                   Written("k_", grad_leaf(cx.saved[2])),
                   Written("v_", grad_leaf(cx.saved[3]))}
        fb(r) ==
            The({IF fallback_error(kres) # "none" THEN
                     on_fallback_error(rf, fallback_error(kres))
                 ELSE
                     The({[rf EXCEPT
                            !.status = "ok", !.path = "fallback",
                            !.from = [n \in 1..3 |->
                                IF n \in fallback_rebinds(r.buffers)
                                THEN "autograd" ELSE "buffer"],
                            !.grads = [n \in 1..3 |->
                                IF n \in fallback_rebinds(r.buffers)
                                THEN fg[n] ELSE metal[n]]] :
                          fg \in {fallback_grads(cx, go)}}) :
                 rf \in {[r EXCEPT !.fallbacks = 1, !.trace = Append(@, "fallback"),
                                   !.touched = @ \cup leaves,
                                   !.fbErr = fallback_error(kres),
                                   !.calls = fallback_calls(cx),
                                   !.depth = nesting(fallback_calls(cx))]}})
    IN  IF bwd_torch_missing THEN Raised(r0, "RuntimeError", "runtime")
        ELSE IF saved_missing(cx) THEN Raised(r0, "ValueError", "saved_tensors")
        ELSE IF metal_kernel_ok THEN
            IF kres = "ok" THEN
                [r3 EXCEPT !.status = "ok", !.path = "native", !.grads = metal,
                           !.from = <<"buffer", "buffer", "buffer">>]
            ELSE IF kernel_answer(kres) = "ok" THEN
                IF caught_by_backward("RuntimeError") THEN fb(r3)
                ELSE Raised(r3, "RuntimeError", "copy")
            ELSE IF caught_by_backward(kernel_answer(kres)) THEN fb(r2)
            ELSE Raised(r2, kernel_answer(kres), "kernel")
        ELSE IF debug THEN fb(r1)
        ELSE Raised(r1, "RuntimeError", "no_fallback")

BackwardOutcome(c, cx, grad_out, kres) ==
    BackwardUnder(fallback_permitted, c, cx, grad_out, kres)

(***************************************************************************)
(* The second FlashAttnFunction of the repository,                         *)
(* metal-backend/experimental/orchard_ops/flash_attn_function.py.          *)
(***************************************************************************)
\* forward of orchard_ops: the checks of the forward above in the same order;
\* q, k, v go to the kernel and into the ctx object as they were given.
orchard_forward(c, cx, in, kres, kmask) ==
    LET r0 == [Call("forward", c) EXCEPT !.hd = HeadDimOf(in.q), !.p = in.p,
                                         !.onDev = ~off_device(in), !.arg = in.q]
        cx1 == [cx EXCEPT !.params = <<in.scale, in.p, in.causal>>]
        r2 == [r0 EXCEPT !.fwdCalls = 1, !.kernel = kres]
    IN  IF ~torchPresent THEN
            [ret |-> Raised(r0, "RuntimeError", "runtime"), ctx |-> cx]
        ELSE IF ~fwdReg THEN
            [ret |-> Raised(r0, "RuntimeError", "unregistered"), ctx |-> cx]
        ELSE IF \E t \in {in.q, in.k, in.v} : t.dev # "mps" THEN
            [ret |-> Raised(r0, "RuntimeError", "device"), ctx |-> cx]
        ELSE IF HeadDimOf(in.q) % 8 # 0 THEN
            [ret |-> Raised(r0, "ValueError", "head_dim"), ctx |-> cx]
        ELSE IF ~(0 <= in.p /\ in.p < 100) THEN
            [ret |-> Raised(r0, "ValueError", "dropout_p"), ctx |-> cx]
        ELSE IF kres # "ok" THEN
            [ret |-> Raised(r2, kres, "kernel"), ctx |-> cx1]
        ELSE
            The({[ret |-> [r2 EXCEPT !.status = "ok", !.path = "native",
                                     !.out = om[1], !.mask = om[2]],
                  ctx |-> [cx1 EXCEPT !.saved = <<in.q, in.k, in.v, om[2]>>]] :
                 om \in {native_forward(in.q, in.k, in.v, in.scale, in.p,
                                        in.causal, kmask)}})

\* The saved contexts on which the gradients through
\* torch.nn.functional.scaled_dot_product_attention are known here: it scales
\* the scores by 1 / sqrt(head_dim), whatever ctx.scale is, and draws its own
\* dropout on the attention weights; with dropout_p = 0 and q, k all zero
\* there is no draw, every score is 0 and the scale multiplies 0.
SdpaExact(cx) ==
    /\ cx.params[2] = 0
    /\ cx.saved[1].data = Zeros(Rows(cx.saved[1].data), Cols(cx.saved[1].data))
    /\ cx.saved[2].data = Zeros(Rows(cx.saved[2].data), Cols(cx.saved[2].data))

\* torch.autograd.grad through scaled_dot_product_attention(q_, k_, v_,
\* dropout_p, is_causal) on detached clones, for a context in SdpaExact.
sdpa_grads(cx, go) ==
    ref_attention_grad(grad_leaf(cx.saved[1]).data, grad_leaf(cx.saved[2]).data,
                       grad_leaf(cx.saved[3]).data, 1, cx.params[3], go.data)

\* backward(ctx, grad_out) of orchard_ops, called with one gradient: no
\* normaliser, no try around the kernel, and under _DEBUG a fallback through
\* scaled_dot_product_attention.
orchard_backward(debug, c, cx, grad_out, kres) ==
    LET r0 == [Call("backward", c) EXCEPT !.seed = grad_out.data, !.arg = grad_out,
                                          !.depth = 1]
        r1 == [r0 EXCEPT !.hd = HeadDimOf(cx.saved[1]), !.p = cx.params[2]]
        kargs == <<grad_out, cx.saved[1], cx.saved[2], cx.saved[3], cx.saved[4],
                   cx.params[1], cx.params[2], cx.params[3]>>
        r2 == [r1 EXCEPT !.bwdCalls = 1, !.kernel = kres, !.kargs = kargs,
                         !.trace = <<"native">>]
        sdpa == {"enable_grad", "detach", "clone", "requires_grad_",
                 "scaled_dot_product_attention", "autograd.grad"}
    IN  IF ~torchPresent THEN Raised(r0, "RuntimeError", "runtime")
        ELSE IF cx.saved = <<>> THEN Raised(r0, "ValueError", "saved_tensors")
        ELSE IF bwdReg THEN
            IF kres = "ok" THEN
                [r2 EXCEPT !.status = "ok", !.path = "native",
                           !.grads = native_backward(kargs[1], kargs[2], kargs[3],
                                                     kargs[4], kargs[5], kargs[6],
                                                     kargs[7], kargs[8])]
            ELSE Raised(r2, kres, "kernel")
        ELSE IF debug THEN
            [r1 EXCEPT !.status = "ok", !.path = "sdpa", !.fallbacks = 1,
                       !.trace = <<"fallback">>, !.calls = sdpa,
                       !.depth = nesting(sdpa), !.grads = sdpa_grads(cx, grad_out)]
        ELSE Raised(r1, "RuntimeError", "no_fallback")

(***************************************************************************)
(* The inputs the calls are tried on.                                      *)
(***************************************************************************)
\* dropout_p, in hundredths: -0.1, 0.0, 0.5, 0.99, 1.0, 1.2
DropoutPs == {-10, 0, 50, 99, 100, 120}

\* Layout and autograd status of a caller's tensor.
Laid(kind, data) ==
    CASE kind = "param" -> Tensor("mps", TRUE, TRUE, TRUE, TRUE, data)
      [] kind = "plain" -> Tensor("mps", TRUE, TRUE, FALSE, TRUE, data)
      [] kind = "cpu"   -> Tensor("cpu", TRUE, TRUE, TRUE, TRUE, data)
      [] kind = "view"  -> Tensor("mps", FALSE, FALSE, TRUE, FALSE, data)
      [] OTHER          -> Tensor("mps", TRUE, FALSE, FALSE, TRUE, data)

Layouts ==
    {<<"param", "param", "param">>, <<"cpu", "param", "param">>,
     <<"param", "param", "cpu">>, <<"view", "param", "param">>,
     <<"plain", "view", "unit">>}

\* Every head_dim up to the bound under every dropout_p, and every layout
\* under valid and invalid head_dim and dropout_p: all-zero data.
ShapeInputs ==
    {[q |-> Laid("param", Zeros(SeqLen, hd)), k |-> Laid("param", Zeros(SeqLen, hd)),
      v |-> Laid("param", Zeros(SeqLen, hd)), scale |-> 1, p |-> p, causal |-> FALSE] :
        hd \in 0..MaxHeadDim, p \in DropoutPs}
    \cup
    {[q |-> Laid(l[1], Zeros(SeqLen, hd)), k |-> Laid(l[2], Zeros(SeqLen, hd)),
      v |-> Laid(l[3], Zeros(SeqLen, hd)), scale |-> 1, p |-> p, causal |-> cz] :
        hd \in {7, 8, 12, 16}, l \in Layouts, p \in {-10, 0, 50, 100},
        cz \in BOOLEAN}
    \cup
    {[q |-> Half(Laid(l, Zeros(SeqLen, hd))), k |-> Half(Laid("param", Zeros(SeqLen, hd))),
      v |-> Half(Laid("param", Zeros(SeqLen, hd))), scale |-> 1, p |-> 0,
      causal |-> FALSE] :
        hd \in {8, 16}, l \in {"param", "view", "cpu"}}

\* Row 1 is all a, the other rows all b.
Step(h, a, b) == [i \in 1..SeqLen |-> [d \in 1..h |-> IF i = 1 THEN a ELSE b]]

\* head_dim 8 with data: scores are 0 or 128 * scale.
ValueInputs ==
    {in \in
        {[q |-> Laid("param", Step(8, qa[1], qa[2])),
          k |-> Laid("param", Step(8, ka[1], ka[2])),
          v |-> Laid("param", Step(8, va[1], va[2])),
          scale |-> sc, p |-> p, causal |-> cz] :
            qa \in {<<4, 4>>, <<0, 4>>}, ka \in {<<4, 4>>, <<4, 0>>},
            va \in {<<1, 0>>, <<1, 2>>}, sc \in {1, 2}, p \in {0, 50},
            cz \in BOOLEAN} :
        SoftmaxExact(MaskedScores(in.q.data, in.k.data, in.scale, in.causal))}

\* The calls forward is tried on.
ForwardInputs == ShapeInputs \cup ValueInputs

\* The masks a forward kernel may draw: nothing dropped, position 1 dropped,
\* one element of the last position dropped.
KernelMasks(in) ==
    LET n == Rows(in.q.data)
        h == Cols(in.v.data)
    IN  {Ones(n, h),
         [i \in 1..n |-> [d \in 1..h |-> IF i = 1 THEN 0 ELSE 1]],
         [i \in 1..n |-> [d \in 1..h |-> IF i = n /\ d = 1 THEN 0 ELSE 1]]}

\* Row i is 10 * i + 1, 10 * i + 2, ...: no two elements are equal.
Ramp(n, h) == [i \in 1..n |-> [d \in 1..h |-> 10 * i + d]]

NormHeadDims == {0, 1, 3, 8}

\* torch.empty((1, n, 0), device="mps"): the strides torch gives a tensor
\* without elements count an empty dimension as one.
Empty(n) == Strided("mps", "float32", "default", FALSE, TRUE, n, 0, <<n, 1, 1>>, <<>>)

\* The tensors the storage normaliser is tried on: every layout, storage mode
\* and element type, on the accelerator and on the host, and None.
NormInputs ==
    {NoTensor, Empty(SeqLen)} \cup
    {The({IF hf THEN Half(t) ELSE t :
            t \in {CASE m = "private" -> Private(Laid(kind, Ramp(SeqLen, h)))
                     [] m = "shared"  -> Shared(Laid(kind, Ramp(SeqLen, h)))
                     [] OTHER         -> Laid(kind, Ramp(SeqLen, h))}}) :
        kind \in {"param", "plain", "cpu", "view", "unit"},
        m \in {"default", "shared", "private"}, hf \in BOOLEAN,
        h \in NormHeadDims}

\* The calls the reference attention is tried on, head_dim 8: scores of 0,
\* +-128, +-12800, and products that overflow the element type.
RefInputs ==
    {in \in
        {[q |-> Step(8, qa[1], qa[2]), k |-> Step(8, ka[1], ka[2]),
          v |-> Step(8, va[1], va[2]), scale |-> 1, causal |-> cz] :
            qa \in {0, 4, -400} \X {0, 4}, ka \in {4, 400} \X {0, 4},
            va \in {1, 3} \X {0, 2}, cz \in BOOLEAN} :
        SoftmaxExact(MaskedScores(in.q, in.k, in.scale, in.causal))}

\* Two calls that differ in q, k, v, scale, dropout_p and causal.
PairInputs ==
    {in \in ValueInputs :
        \/ /\ in.q.data = Step(8, 4, 4) /\ in.k.data = Step(8, 4, 4)
           /\ in.v.data = Step(8, 1, 0)
           /\ in.scale = 1 /\ in.p = 0 /\ ~in.causal
        \/ /\ in.q.data = Step(8, 0, 4) /\ in.k.data = Step(8, 4, 0)
           /\ in.v.data = Step(8, 1, 2)
           /\ in.scale = 2 /\ in.p = 50 /\ in.causal}

\* The calls backward's faults are tried after: the two of PairInputs, and one
\* whose q is a view, so that the saved q is a copy the dispatcher made.
FaultInputs ==
    PairInputs \cup
    {[q |-> Laid("view", Zeros(SeqLen, 8)), k |-> Laid("param", Zeros(SeqLen, 8)),
      v |-> Laid("plain", Zeros(SeqLen, 8)), scale |-> 1, p |-> 0, causal |-> FALSE]}

\* The calls the two implementations of forward are compared on: every layout
\* under a valid and an invalid head_dim and dropout_p.
BothInputs ==
    {in \in ShapeInputs :
        /\ HeadDimOf(in.q) \in {7, 8}
        /\ in.q.dtype = "float32"
        /\ in.p \in {0, 100}
        /\ ~in.causal}

\* The seeds autograd may hand to backward for the ctx object cx.
GradOuts(cx) ==
    LET h == IF cx.saved = <<>> THEN 8 ELSE Cols(cx.saved[3].data)
    IN  {Laid("plain", Step(h, 1, 1)), Laid("view", Step(h, 1, 2))}

(***************************************************************************)
(* The state machine.                                                      *)
(***************************************************************************)
Init ==
    /\ torchPresent \in BOOLEAN
    /\ DEBUG \in BOOLEAN
    /\ bridgeImported \in BOOLEAN
    /\ fwdReg = FALSE
    /\ bwdReg = FALSE
    /\ environ = "unset"
    /\ ctx = [c \in Ctxs |-> NoCtx]
    /\ ret = RetNone
    /\ hist = NoHist

\* torch.ops.load_library(lib_path): the library registers its operations.
load_library(f, b) ==
    /\ torchPresent
    /\ ~(fwdReg /\ bwdReg)
    /\ fwdReg' = (fwdReg \/ f)
    /\ bwdReg' = (bwdReg \/ b)
    /\ UNCHANGED <<torchPresent, DEBUG, bridgeImported, environ, ctx, ret, hist>>

\* A call of _metal_kernel_available().
ResolverCall ==
    /\ ret = RetNone
    /\ ret' = [Call("_metal_kernel_available", 0) EXCEPT
                   !.status = "ok", !.avail = metal_kernel_available]
    /\ UNCHANGED <<torchPresent, DEBUG, fwdReg, bwdReg, bridgeImported, environ, ctx, hist>>

\* A call of is_metal_flash_attn_available().
AvailableCall ==
    /\ ret = RetNone
    /\ ret' = [Call("is_metal_flash_attn_available", 0) EXCEPT
                   !.status = "ok", !.avail = is_metal_flash_attn_available]
    /\ UNCHANGED <<torchPresent, DEBUG, fwdReg, bwdReg, bridgeImported, environ, ctx, hist>>

\* FlashAttnFunction.forward on a new ctx object, its arguments among ins.
ForwardOn(c, ins) ==
    /\ ret = RetNone
    /\ ctx[c] = NoCtx
    /\ \E in \in ins, kres \in KernelResults :
        \E kmask \in KernelMasks(in) :
            \E o \in {ForwardOutcome(c, ctx[c], in, kres, kmask)} :
                /\ ret' = o.ret
                /\ ctx' = [ctx EXCEPT ![c] = o.ctx]
                /\ hist' = [hist EXCEPT !.unreg = (o.ret.why = "unregistered")]
    /\ UNCHANGED <<torchPresent, DEBUG, fwdReg, bwdReg, bridgeImported, environ>>

Forward(c) == ForwardOn(c, ForwardInputs)

\* One ctx object for every node: all backwards read the ctx object of node 1.
saved_context_shared(c) == ctx[1]

\* The ctx object autograd passes to backward: the one the forward of the same
\* node was given.
saved_context(c) == ctx[c]

\* FlashAttnFunction.backward on the ctx object c, as autograd calls it for
\* out.backward(grad_out, retain_graph=True) or as a caller calls it directly:
\* the function itself neither marks nor empties the ctx object.
BackwardOn(c, faults) ==
    /\ ret = RetNone
    /\ \E g \in GradOuts(saved_context(c)), kres \in faults :
        \E r \in {BackwardOutcome(c, saved_context(c), g, kres)} :
            /\ ret' = r
            /\ hist' = [hist EXCEPT
                            !.done = IF r.status = "ok" THEN @ \cup {c} ELSE @]
    /\ UNCHANGED <<torchPresent, DEBUG, fwdReg, bwdReg, bridgeImported, environ, ctx>>

Backward(c) == BackwardOn(c, KernelResults)

\* FlashAttnFunction.apply makes a new ctx object for the next call.
NewCtx(c) ==
    /\ ret = RetNone
    /\ ctx[c] # NoCtx
    /\ ctx' = [ctx EXCEPT ![c] = NoCtx]
    /\ hist' = [hist EXCEPT !.done = @ \ {c}]
    /\ UNCHANGED <<torchPresent, DEBUG, fwdReg, bwdReg, bridgeImported, environ, ret>>

\* The caller takes what the call returned or raised and goes on.
Return ==
    /\ ret # RetNone
    /\ ret' = RetNone
    /\ UNCHANGED <<torchPresent, DEBUG, fwdReg, bwdReg, bridgeImported, environ, ctx, hist>>

\* A call of enable_flash.main(verbose, strict).
EnableFlash ==
    /\ ret = RetNone
    /\ \E in \in MainCalls :
        \E o \in {MainOutcome(in)} :
            /\ ret' = o.ret
            /\ environ' = o.environ
            /\ fwdReg' = o.fwdReg
            /\ bwdReg' = o.bwdReg
    /\ UNCHANGED <<torchPresent, DEBUG, bridgeImported, ctx, hist>>

\* A call of _ensure_shared_mps_tensor(t).
NormalizeCall ==
    /\ torchPresent
    /\ ret = RetNone
    /\ \E t \in NormInputs :
        ret' = [Call("_ensure_shared_mps_tensor", 0) EXCEPT
                    !.status = "ok", !.arg = t, !.out = ensure_shared_mps_tensor(t)]
    /\ UNCHANGED <<torchPresent, DEBUG, fwdReg, bwdReg, bridgeImported, environ, ctx, hist>>

\* A call of _ref_attention(q, k, v, scale, causal).
RefAttentionCall ==
    /\ torchPresent
    /\ ret = RetNone
    /\ \E in \in RefInputs :
        ret' = [Call("_ref_attention", 0) EXCEPT
                    !.status = "ok", !.call = in,
                    !.out = Fresh(ref_attention(in.q, in.k, in.v, in.scale, in.causal))]
    /\ UNCHANGED <<torchPresent, DEBUG, fwdReg, bwdReg, bridgeImported, environ, ctx, hist>>

Next ==
    \/ \E f, b \in BOOLEAN : load_library(f, b)
    \/ ResolverCall
    \/ AvailableCall
    \/ \E c \in Ctxs : Forward(c)
    \/ \E c \in Ctxs : Backward(c)
    \/ \E c \in Ctxs : NewCtx(c)
    \/ Return

Spec == Init /\ [][Next]_vars

\* Two attention layers, each with its own ctx object, their forwards and
\* backwards interleaved.
TwoCtxs == {1, 2}

InitTwo ==
    /\ torchPresent = TRUE
    /\ DEBUG \in BOOLEAN
    /\ bridgeImported = TRUE
    /\ fwdReg = FALSE
    /\ bwdReg = FALSE
    /\ environ = "unset"
    /\ ctx = [c \in TwoCtxs |-> NoCtx]
    /\ ret = RetNone
    /\ hist = NoHist

NextTwo ==
    \/ \E f, b \in BOOLEAN : load_library(f, b)
    \/ \E c \in TwoCtxs : ForwardOn(c, PairInputs)
    \/ \E c \in TwoCtxs : Backward(c)
    \/ \E c \in TwoCtxs : NewCtx(c)
    \/ Return

SpecTwo == InitTwo /\ [][NextTwo]_vars

\* Forward and backward with everything a backward can meet.
NextFault ==
    \/ \E f, b \in BOOLEAN : load_library(f, b)
    \/ \E c \in Ctxs : ForwardOn(c, FaultInputs)
    \/ \E c \in Ctxs : BackwardOn(c, BackwardFaults)
    \/ \E c \in Ctxs : NewCtx(c)
    \/ Return

SpecFault == Init /\ [][NextFault]_vars

\* Start-up: enable_flash.main, and the queries that tell what it achieved.
NextEnable ==
    \/ EnableFlash
    \/ ResolverCall
    \/ AvailableCall
    \/ Return

SpecEnable == Init /\ [][NextEnable]_vars

\* The helper functions called on their own.
NextPure ==
    \/ NormalizeCall
    \/ RefAttentionCall
    \/ Return

SpecPure == Init /\ [][NextPure]_vars

(***************************************************************************)
(* Properties.                                                             *)
(***************************************************************************)
Saved(c) == ctx[c].saved # <<>>

\* The three gradients g have the shapes of the q, k, v saved in ctx[c].
GradShapesMatch(g, c) ==
    /\ Len(g) = 3
    /\ \A n \in 1..3 : Shape(g[n]) = Shape(ctx[c].saved[n].data)

\* The reverse-mode gradients, seeded by seed, of
\* mask * ref_attention(q, k, v, scale, causal) / (1 - dropout_p) for the
\* tensors and parameters of ctx[c].
DropoutGrads(c, seed) ==
    ref_attention_grad(ctx[c].saved[1].data, ctx[c].saved[2].data,
                       ctx[c].saved[3].data, ctx[c].params[1], ctx[c].params[3],
                       DropoutScale(seed, ctx[c].saved[4].data, ctx[c].params[2]))

\* C1: whenever backward invoked the native backward kernel and the kernel
\* raised, whatever it raised, backward returned the fallback's three gradients,
\* shaped like q, k and v, and raised nothing.
C1_KernelErrorAlwaysRecovered ==
    (ret.op = "backward" /\ ret.bwdCalls = 1 /\ ret.kernel # "ok")
        => /\ ret.status = "ok"
           /\ ret.path = "fallback"
           /\ GradShapesMatch(ret.grads, ret.c)

\* C2: for every saved context and seed, with the native kernel available, the
\* gradients of backward on the native path equal those of backward with the
\* kernel made to fail (the fallback path).
C2_NativeEqualsFallback ==
    \A c \in Ctxs :
        (Saved(c) /\ metal_kernel_available) =>
            \A g \in GradOuts(ctx[c]) :
                BackwardOutcome(c, ctx[c], g, "ok").grads
                    = BackwardOutcome(c, ctx[c], g, "RuntimeError").grads

\* C3: the gradients a fallback returned are those of
\* mask * ref_attention / (1 - dropout_p), seeded by grad_output.
C3_FallbackAppliesDropout ==
    (ret.op = "backward" /\ ret.path = "fallback")
        => ret.grads = DropoutGrads(ret.c, ret.seed)

\* C4: when the native forward kernel raised, forward raised the same error,
\* returned no output and no mask from any path, and saved no tensors.
C4_ForwardErrorPropagates ==
    (ret.op = "forward" /\ ret.fwdCalls = 1 /\ ret.kernel # "ok")
        => /\ ret.status = "raised"
           /\ ret.exc = ret.kernel
           /\ ret.path = "none"
           /\ ret.out = NoTensor
           /\ ret.mask = NoTensor
           /\ ~Saved(ret.c)

C4_Witness ==
    /\ ret.op = "forward"
    /\ ret.fwdCalls = 1
    /\ ret.kernel = "RuntimeError"
    /\ ret.status = "raised"

\* C5: with the runtime, the registered forward, q, k, v on the accelerator and
\* dropout_p in [0,1), forward raises ValueError for head_dim in 1..7 and 9..15
\* without invoking the kernel, and invokes the kernel for head_dim 8, 16, 24, ...
C5_HeadDimValidation ==
    (/\ ret.op = "forward"
     /\ torchPresent /\ ret.fwdReg /\ ret.onDev
     /\ 0 <= ret.p /\ ret.p < 100)
        => /\ ret.hd \in (1..7) \cup (9..15)
                => /\ ret.status = "raised"
                   /\ ret.exc = "ValueError"
                   /\ ret.why = "head_dim"
                   /\ ret.fwdCalls = 0
           /\ ret.hd \in {8 * m : m \in 1..(MaxHeadDim \div 8)}
                => /\ ret.fwdCalls = 1
                   /\ ret.why \in {"none", "kernel"}

C5_Witness ==
    /\ ret.op = "forward"
    /\ ret.hd \in 9..15
    /\ ret.p = 99
    /\ ret.exc = "ValueError"
    /\ ret.why = "head_dim"

\* C6: with the runtime, the registered forward, q, k, v on the accelerator and
\* head_dim a multiple of 8, forward raises ValueError for dropout_p outside
\* [0,1) without invoking the kernel, and invokes the kernel for dropout_p inside.
C6_DropoutValidation ==
    (/\ ret.op = "forward"
     /\ torchPresent /\ ret.fwdReg /\ ret.onDev
     /\ ret.hd % 8 = 0)
        => /\ (ret.p < 0 \/ ret.p >= 100)
                => /\ ret.status = "raised"
                   /\ ret.exc = "ValueError"
                   /\ ret.why = "dropout_p"
                   /\ ret.fwdCalls = 0
           /\ (0 <= ret.p /\ ret.p < 100)
                => /\ ret.fwdCalls = 1
                   /\ ret.why \in {"none", "kernel"}

C6_Witness ==
    /\ ret.op = "forward"
    /\ ret.hd = 16
    /\ ret.p = 100
    /\ ret.exc = "ValueError"
    /\ ret.why = "dropout_p"

\* C7: when forward rejected its inputs (device, head_dim, dropout_p), no
\* contiguous copy of q, k or v had been made, the kernel had not been invoked
\* and nothing had been written to the gradient context.
C7_RejectedBeforeAnyWork ==
    (ret.op = "forward" /\ ret.why \in {"device", "head_dim", "dropout_p"})
        => /\ ret.copies = {}
           /\ ret.fwdCalls = 0
           /\ ctx[ret.c] = NoCtx

\* C8: a backward on a context forward completed, run while the native backward
\* is unregistered, raises and returns no gradients when the toggle is off,
\* returns the fallback's gradients when it is on, and invokes no kernel.
C8_UnregisteredBackward ==
    (ret.op = "backward" /\ Saved(ret.c) /\ ~ret.bwdReg)
        => /\ ret.bwdCalls = 0
           /\ ~DEBUG => /\ ret.status = "raised"
                        /\ ret.exc = "RuntimeError"
                        /\ ret.grads = <<>>
                        /\ ret.fallbacks = 0
           /\ DEBUG => /\ ret.status = "ok"
                       /\ ret.path = "fallback"
                       /\ ret.fallbacks = 1
                       /\ ret.grads = fallback_grads(ctx[ret.c], [data |-> ret.seed])

C8_Witness ==
    /\ ret.op = "backward"
    /\ Saved(ret.c)
    /\ ~ret.bwdReg
    /\ DEBUG
    /\ ret.path = "fallback"
    /\ ret.grads # <<>>

\* C9: without the runtime every backward raises the fatal RuntimeError, returns
\* no gradients and attempts neither the native kernel nor the fallback.
C9_NoRuntimeNoBackward ==
    (ret.op = "backward" /\ ~torchPresent)
        => /\ ret.status = "raised"
           /\ ret.exc = "RuntimeError"
           /\ ret.why = "runtime"
           /\ ret.grads = <<>>
           /\ ret.bwdCalls = 0
           /\ ret.fallbacks = 0

C9_Witness ==
    /\ ret.op = "backward"
    /\ ~torchPresent
    /\ DEBUG
    /\ ret.status = "raised"

C11_AvailabilityPerCall ==
    [][ret.op = "none" =>
        /\ (ret'.op = "forward" /\ torchPresent)
                => (ret'.why = "unregistered" <=> ~fwdReg)
        /\ (ret'.op = "forward" /\ torchPresent /\ hist.unreg /\ fwdReg)
                => ret'.why # "unregistered"
        /\ (ret'.op = "backward" /\ torchPresent /\ Saved(ret'.c))
                => (ret'.bwdCalls = 1 <=> bwdReg)
        /\ ret'.op = "_metal_kernel_available"
                => (ret'.avail <=> (torchPresent /\ fwdReg /\ bwdReg))]_vars

C11_Witness ==
    /\ ret.op = "forward"
    /\ ret.retry
    /\ ret.fwdReg
    /\ ret.status = "ok"

\* C12: a call made while the resolver answers false (the runtime absent, or
\* one of the two operations unregistered) invokes neither native kernel.
C12_NativeOnlyWhenResolverTrue ==
    (/\ ret.op \in {"forward", "backward"}
     /\ ~(torchPresent /\ ret.fwdReg /\ ret.bwdReg))
        => /\ ret.fwdCalls = 0
           /\ ret.bwdCalls = 0

\* C13: a backward on a context on which a backward has already returned, and a
\* backward on a context in which no forward has saved its tensors, raises and
\* returns no gradients.
C13_SingleUseContext ==
    (ret.op = "backward" /\ (ret.again \/ ~Saved(ret.c)))
        => /\ ret.status = "raised"
           /\ ret.grads = <<>>

\* C14: the tensor the storage normaliser returns shows the same elements, with
\* the same shape and element type, as its argument, and normalising it again
\* returns a tensor that shows these elements too.
C14_NormalizerPreservesValues ==
    ret.op = "_ensure_shared_mps_tensor"
        => /\ ret.out.data = ret.arg.data
           /\ Shape(ret.out.data) = Shape(ret.arg.data)
           /\ ret.out.dtype = ret.arg.dtype
           /\ \E again \in {ensure_shared_mps_tensor(ret.out)} :
                /\ again.data = ret.out.data
                /\ Shape(again.data) = Shape(ret.out.data)
                /\ again.dtype = ret.out.dtype

C14_Witness ==
    /\ ret.op = "_ensure_shared_mps_tensor"
    /\ ret.arg.dev = "mps"
    /\ ~ret.arg.contig
    /\ ret.arg.dtype = "float16"
    /\ ret.out.contig
    /\ ret.out.store # ret.arg.store
    /\ ret.out.data = Ramp(SeqLen, 8)

\* C15: for every tensor on the accelerator the storage normaliser returns a
\* tensor whose buffer is in shared storage mode.
C15_NormalizerReturnsShared ==
    (ret.op = "_ensure_shared_mps_tensor" /\ ret.arg.dev = "mps")
        => ret.out.mode = "shared"

\* The argument t meets none of the normaliser's reasons to copy.
PassesThrough(t) ==
    \/ t = NoTensor
    \/ t.dev # "mps"
    \/ t.contig /\ t.canon /\ t.leaf /\ ~t.rg

\* C21: the storage normaliser returns its argument itself exactly when the
\* argument is None, is off the accelerator, or is contiguous with row-major
\* strides, a leaf and without requires_grad; otherwise it returns a tensor it
\* allocated, which shows the argument's elements and, when the argument was
\* contiguous and row-major, is detached; and it writes to no tensor in place.
C21_NormalizerIdentityOrCopy ==
    ret.op = "_ensure_shared_mps_tensor"
        => /\ PassesThrough(ret.arg) <=> ret.out = ret.arg
           /\ PassesThrough(ret.arg) => ret.out.owner = "caller"
           /\ ~PassesThrough(ret.arg)
                => /\ ret.out.owner = "dispatcher"
                   /\ ret.out.data = ret.arg.data
                   /\ (ret.arg.contig /\ ret.arg.canon)
                        => (~ret.out.rg /\ ret.out.leaf)
           /\ ret.touched = {}

C21_Witness ==
    /\ ret.op = "_ensure_shared_mps_tensor"
    /\ ret.arg.dev = "mps"
    /\ ret.arg.contig /\ ret.arg.canon
    /\ ret.arg.rg
    /\ ret.arg.data = Ramp(SeqLen, 8)
    /\ ret.out.owner = "dispatcher"
    /\ ~ret.out.rg

\* The calls a and b agree on q, scale and causal and on the keys and values
\* at the positions 1..i.
AgreeUpTo(a, b, i) ==
    /\ a.q = b.q /\ a.scale = b.scale /\ a.causal = b.causal
    /\ \A j \in 1..i : a.k[j] = b.k[j] /\ a.v[j] = b.v[j]

\* C16: the output of a causal reference attention at position i is the output
\* at position i of every causal call that agrees with it on q and on the keys
\* and values at the positions up to i.
C16_CausalNoFutureLeak ==
    (ret.op = "_ref_attention" /\ ret.call.causal)
        => \A b \in RefInputs : \A i \in 1..SeqLen :
            AgreeUpTo(ret.call, b, i)
                => ref_attention(b.q, b.k, b.v, b.scale, b.causal)[i]
                        = ret.out.data[i]

\* C17: a forward or a backward on one context changes no module-level state
\* and no other context, a backward changes no context at all, and the
\* gradients a backward returns are those of the q, k, v, mask, scale,
\* dropout_p and causal in its own context (on the fallback path, of its q, k,
\* v, scale and causal: the fallback reads nothing else).
C17_ContextsIndependent ==
    [][(ret.op = "none" /\ ret'.op \in {"forward", "backward"})
        => /\ UNCHANGED <<torchPresent, DEBUG, fwdReg, bwdReg, bridgeImported, environ>>
           /\ \A d \in (DOMAIN ctx) \ {ret'.c} : ctx'[d] = ctx[d]
           /\ ret'.op = "backward"
                => /\ ctx' = ctx
                   /\ ret'.status = "ok"
                        => /\ Saved(ret'.c)
                           /\ ret'.path = "native"
                                => ret'.grads = DropoutGrads(ret'.c, ret'.seed)
                           /\ ret'.path = "fallback"
                                => ret'.grads
                                    = fallback_grads(ctx[ret'.c], [data |-> ret'.seed])]_vars

C17_Witness ==
    /\ ret.op = "backward"
    /\ ret.c = 2
    /\ ret.status = "ok"
    /\ ret.path = "native"
    /\ 1 \in hist.done
    /\ Saved(1)
    /\ ctx[1].params # ctx[2].params
    /\ ctx[1].saved # ctx[2].saved

\* What the caller of a backward gets: its gradients, or its error.
Outcome(r) == <<r.status, r.exc, r.grads>>

\* C18: in every state, whatever the context, the seed and the native kernel's
\* answer, a backward gives its caller the same gradients or the same error with
\* the toggle on as with the toggle off (forward reads the toggle only to print).
C18_ToggleOnlyLogs ==
    \A c \in DOMAIN ctx :
        \A g \in GradOuts(ctx[c]), kres \in KernelResults :
            Outcome(BackwardUnder(TRUE, c, ctx[c], g, kres))
                = Outcome(BackwardUnder(FALSE, c, ctx[c], g, kres))

\* One of the four failures of start-up met the call in: no runtime, no
\* library found, a load that failed, or kernels missing after the load.
MainFailure(in) ==
    \/ ~torchPresent
    \/ ~in.found
    \/ ~in.loads
    \/ ~(fwdReg /\ bwdReg)

\* C19: a lenient main never raises and returns False on each of the four
\* failures; a strict main raises on each of them; and main returns True only
\* when the library was loaded and both operations are registered.
C19_StrictAndLenient ==
    ret.op = "main"
        => /\ ~ret.call.strict
                => /\ ret.status = "ok"
                   /\ MainFailure(ret.call) => ret.value = FALSE
           /\ (ret.call.strict /\ MainFailure(ret.call)) => ret.status = "raised"
           /\ (ret.status = "ok" /\ ret.value)
                => /\ torchPresent /\ ret.call.found /\ ret.call.loads
                   /\ fwdReg /\ bwdReg

NormalizedOperands(r) ==
    <<ensure_shared_mps_tensor(r.arg),
      ensure_shared_mps_tensor(ctx[r.c].saved[1]),
      ensure_shared_mps_tensor(ctx[r.c].saved[2]),
      ensure_shared_mps_tensor(ctx[r.c].saved[3]),
      ensure_shared_mps_tensor(ctx[r.c].saved[4]),
      ctx[r.c].params[1], ctx[r.c].params[2], ctx[r.c].params[3]>>

C23_FallbackNotReentrant ==
    (ret.op = "backward" /\ ret.fallbacks >= 1)
        => /\ ret.calls \cap Reentrant = {}
           /\ ret.calls \subseteq
                {"matmul", "transpose", "mul", "softmax", "size", "ones", "triu",
                 "finfo", "masked_fill", "enable_grad", "detach", "clone",
                 "requires_grad_", "autograd.grad"}
           /\ ret.depth = 1

C23_Witness ==
    /\ ret.op = "backward"
    /\ ret.fallbacks = 1
    /\ ret.kernel = "RuntimeError"
    /\ "masked_fill" \in ret.calls
    /\ "matmul" \in ret.calls
    /\ ret.depth = 1

\* The tensor kept is the caller's tensor given, as it was given, or a tensor
\* the dispatcher made that shows the same elements.
GivenOrCopy(kept, given) ==
    \/ kept = given
    \/ kept.owner = "dispatcher" /\ kept.data = given.data

\* C24: every tensor a forward or a backward wrote to, on the native path and
\* on the fallback path, was materialised by the dispatcher or by a kernel,
\* never by the caller; the q a forward saved is the caller's q as it was given
\* or the dispatcher's copy of it, and so is the grad_output a backward passed
\* to the kernel.
C24_CallerTensorsUnchanged ==
    ret.op \in {"forward", "backward"}
        => /\ \A w \in ret.touched : w.owner \in {"dispatcher", "kernel"}
           /\ ret.arg.owner = "caller"
           /\ (ret.op = "forward" /\ ret.status = "ok")
                => GivenOrCopy(ctx[ret.c].saved[1], ret.arg)
           /\ (ret.op = "backward" /\ ret.bwdCalls = 1)
                => GivenOrCopy(ret.kargs[1], ret.arg)

C24_Witness ==
    /\ ret.op = "backward"
    /\ ret.path = "fallback"
    /\ ret.buffers = {1}
    /\ ctx[ret.c].saved[1].owner = "caller"
    /\ ctx[ret.c].saved[1].rg
    /\ Written("q_", Fresh(<<>>)) \in ret.touched
    /\ Written("grad_q", Fresh(<<>>)) \in ret.touched

\* The first check of forward that the call recorded in r fails, in the order
\* runtime, registration, device, head_dim, dropout_p; "none" when all pass.
FirstViolated(r) ==
    IF ~torchPresent THEN "runtime"
    ELSE IF ~r.fwdReg THEN "unregistered"
    ELSE IF ~r.onDev THEN "device"
    ELSE IF r.hd % 8 # 0 THEN "head_dim"
    ELSE IF ~(0 <= r.p /\ r.p < 100) THEN "dropout_p"
    ELSE "none"

\* C25: a forward raises the error of the first check it violates, in the
\* order runtime, registration, device, head_dim, dropout_p, whatever later
\* checks it violates too: RuntimeError for the first three, ValueError for the
\* last two; when all pass, no check raises.
C25_FirstViolationWins ==
    ret.op = "forward"
        => /\ FirstViolated(ret) # "none"
                => /\ ret.status = "raised"
                   /\ ret.why = FirstViolated(ret)
                   /\ ret.exc = (IF ret.why \in {"head_dim", "dropout_p"}
                                 THEN "ValueError" ELSE "RuntimeError")
                   /\ ret.fwdCalls = 0
           /\ FirstViolated(ret) = "none" => ret.why \in {"none", "kernel"}
           /\ ret.why \in {"head_dim", "dropout_p"}
                => (torchPresent /\ ret.fwdReg /\ ret.onDev)

C25_Witness ==
    /\ ret.op = "forward"
    /\ torchPresent
    /\ ~ret.fwdReg
    /\ ~ret.onDev
    /\ ret.hd = 7
    /\ ret.p = 100
    /\ ret.exc = "RuntimeError"
    /\ ret.why = "unregistered"

\* The native attempt of the backward recorded in r failed: the kernel was
\* invoked and raised, or a copy into the pre-allocated buffers raised.
NativeAttemptFailed(r) ==
    /\ r.bwdCalls = 1
    /\ (r.kernel # "ok" \/ r.buffers # {1, 2, 3})

\* C26: the three gradients a backward returned are the three pre-allocated
\* buffers holding the kernel's results, or the three results of the fallback's
\* torch.autograd.grad; after a native attempt that failed, also one that had
\* copied grad_q already, all three are the fallback's.
C26_GradientsFromOnePath ==
    (ret.op = "backward" /\ ret.status = "ok")
        => /\ \/ /\ ret.from = <<"buffer", "buffer", "buffer">>
                 /\ ret.path = "native"
                 /\ ~NativeAttemptFailed(ret)
                 /\ ret.grads = DropoutGrads(ret.c, ret.seed)
              \/ /\ ret.from = <<"autograd", "autograd", "autograd">>
                 /\ ret.path = "fallback"
                 /\ ret.grads = fallback_grads(ctx[ret.c], [data |-> ret.seed])
           /\ NativeAttemptFailed(ret)
                => ret.from = <<"autograd", "autograd", "autograd">>

C26_Witness ==
    /\ ret.op = "backward"
    /\ ret.status = "ok"
    /\ ret.kernel = "ok"
    /\ ret.buffers = {1}
    /\ ret.p = 50
    /\ ret.from = <<"autograd", "autograd", "autograd">>
    /\ ret.grads # DropoutGrads(ret.c, ret.seed)

\* C27: a backward invoked the native backward kernel at most once and ran the
\* fallback at most once, the kernel never after the fallback; and when the
\* fallback raised, backward raised that error, returned no gradients, and had
\* run the fallback once.
C27_BoundedAttempts ==
    ret.op = "backward"
        => /\ ret.bwdCalls <= 1
           /\ ret.fallbacks <= 1
           /\ ret.trace \in {<<>>, <<"native">>, <<"fallback">>,
                             <<"native", "fallback">>}
           /\ Len(ret.trace) = ret.bwdCalls + ret.fallbacks
           /\ ret.fbErr # "none"
                => /\ ret.status = "raised"
                   /\ ret.exc = ret.fbErr
                   /\ ret.grads = <<>>
                   /\ ret.fallbacks = 1

C27_Witness ==
    /\ ret.op = "backward"
    /\ ret.trace = <<"native", "fallback">>
    /\ ret.fbErr = "RuntimeError"
    /\ ret.status = "raised"
    /\ ret.why = "fallback"

\* C28: after a call of main that did not return True (it returned False or
\* raised), USE_FLASH_ATTN is what it was before the call.
C28_EnvironOnlyOnSuccess ==
    (ret.op = "main" /\ ~(ret.status = "ok" /\ ret.value))
        => environ = ret.env

\* C29: a forward that invoked the native forward kernel had head_dim a
\* positive multiple of 8 and dropout_p in [0,1); a forward with head_dim 0
\* that passed the runtime, registration and device checks raised the
\* ValueError of an invalid head_dim.
C29_HeadDimZeroRejected ==
    ret.op = "forward"
        => /\ ret.fwdCalls = 1
                => /\ ret.hd > 0 /\ ret.hd % 8 = 0
                   /\ 0 <= ret.p /\ ret.p < 100
           /\ (torchPresent /\ ret.fwdReg /\ ret.onDev /\ ret.hd = 0)
                => /\ ret.status = "raised"
                   /\ ret.exc = "ValueError"
                   /\ ret.why = "head_dim"

\* What the caller of a forward gets: its output and mask, or its error.
Result(r) == <<r.status, r.exc, r.out, r.mask>>

\* C30: in every state (runtime, registrations, toggle), for the same
\* arguments and the same answer of the native kernel, the forward of
\* blocktorch_bridge and the forward of orchard_ops give the same output and
\* mask or the same kind of error, and on every saved context, for the same
\* seed and the same answer of the kernel, so do the two backwards with their
\* gradients (where both run a fallback: on the contexts for which the
\* gradients through scaled_dot_product_attention are known).
C30_ImplementationsEquivalent ==
    /\ \A in \in BothInputs, kres \in KernelResults :
         \A kmask \in KernelMasks(in) :
            Result(ForwardOutcome(1, NoCtx, in, kres, kmask).ret)
                = Result(orchard_forward(1, NoCtx, in, kres, kmask).ret)
    /\ \A c \in DOMAIN ctx :
         \A g \in GradOuts(ctx[c]), kres \in KernelResults :
            (bwdReg \/ ~DEBUG \/ ~Saved(c) \/ SdpaExact(ctx[c]))
                => Outcome(BackwardUnder(DEBUG, c, ctx[c], g, kres))
                    = Outcome(orchard_backward(DEBUG, c, ctx[c], g, kres))

====
